---------------------------- MODULE Spec2Model ----------------------------
(***************************************************************************)
(* The block-sequenced event listener of cosmwasm-client-rs               *)
(* (src/src/events.rs): a transport task that publishes new-block heights  *)
(* on a bounded broadcast channel, a sequencer (process_blocks_            *)
(* sequentially) that walks every height up to the latest signal through   *)
(* process_block, and a bounded mpsc delivery channel read by a consumer.  *)
(***************************************************************************)
EXTENDS Naturals, Integers, Sequences, FiniteSets, TLC

(***************************************************************************)
(* Bounds of the model.                                                    *)
(***************************************************************************)
\* Largest block height the chain reports.
MaxHeight == 3
\* Largest caller-supplied starting height (EventListener::new's argument).
MaxStart == 1
\* Number of get_block_events calls whose block or block_results query may
\* fail in one run.
MaxRpcFailures == 2
\* Capacity of the height-signal broadcast channel.  The source sets
\* EVENT_PROCESSOR_SIZE = 1000 (events.rs:14); the model keeps the name and
\* scales the capacity down so that an overflow is a reachable state.
EVENT_PROCESSOR_SIZE == 1
\* Number of items the new-block notification stream yields before it may
\* only end: enough to overflow the height-signal channel.
MaxNotifs == EVENT_PROCESSOR_SIZE + 1
\* Capacity of the caller-supplied mpsc delivery channel (event_sender).
EventChanCap == 1

(***************************************************************************)
(* Data: raw events, transactions, blocks.                                 *)
(***************************************************************************)
\* The listener's configured contract address (self.contract_address).
contract_address == "target"

Attr(k, v) == <<k, v>>

\* abci::Event: a kind and an ordered list of (key, value) attributes.  All
\* modelled attributes are valid UTF-8, so key_str()/value_str() succeed.
RawEvent(kind, attributes) == [kind |-> kind, attributes |-> attributes]

EvPegInA ==
    RawEvent("wasm", << Attr("_contract_address", "target"), Attr("action", "peg_in"),
                        Attr("msg_index", "0"), Attr("receiver", "addrA"),
                        Attr("amount", "100") >>)

EvPegOutB ==
    RawEvent("wasm", << Attr("_contract_address", "target"), Attr("action", "peg_out"),
                        Attr("msg_index", "1"), Attr("sender", "addrB"),
                        Attr("btc_address", "bc1q"), Attr("operator_btc_pk", "pk"),
                        Attr("amount", "50") >>)

\* A peg_in of the target contract that lacks its receiver.
EvPegInNoReceiver ==
    RawEvent("wasm", << Attr("_contract_address", "target"), Attr("action", "peg_in"),
                        Attr("msg_index", "2"), Attr("amount", "7") >>)

\* A well-formed peg_in emitted by another contract.
EvOtherContract ==
    RawEvent("wasm", << Attr("_contract_address", "other"), Attr("action", "peg_in"),
                        Attr("msg_index", "0"), Attr("receiver", "addrA"),
                        Attr("amount", "100") >>)

\* A non-wasm event.
EvTransfer ==
    RawEvent("transfer", << Attr("recipient", "addrA"), Attr("amount", "100") >>)

None == [tag |-> "None"]
Some(v) == [tag |-> "Some", v |-> v]
Err(msg) == [tag |-> "Err", msg |-> msg]
Ok(v) == [tag |-> "Ok", v |-> v]

\* What the block and block_results queries return for one height: the raw
\* transactions (block.block.data) and the optional per-transaction results
\* (block_results.txs_results, each with its events).
Block(txs, txs_results) == [txs |-> txs, txs_results |-> txs_results]

\* A block without transactions: the node reports no results at all.
BlockEmpty == Block(<< >>, None)
BlockPegIn == Block(<< "txA" >>, Some(<< << EvTransfer, EvPegInA >> >>))
\* Two transactions; the second emits two matching events around one of
\* another contract, the later of them equal to the first transaction's.
BlockTwoTx ==
    Block(<< "txA", "txB" >>,
          Some(<< << EvPegInA >>, << EvPegOutB, EvOtherContract, EvPegInA >> >>))
\* The second transaction emits a peg_in that lacks its receiver.
BlockBadEvent ==
    Block(<< "txA", "txC" >>, Some(<< << EvPegInA >>, << EvPegInNoReceiver >> >>))
\* One raw transaction, two execution results.
BlockMismatch == Block(<< "txA" >>, Some(<< << EvPegInA >>, << EvPegOutB >> >>))

BlockSeq == << BlockPegIn, BlockBadEvent, BlockEmpty, BlockTwoTx, BlockMismatch >>

Blocks == { BlockSeq[i] : i \in 1..Len(BlockSeq) }


(***************************************************************************)
(* Pure functions of the listener.                                         *)
(***************************************************************************)
\* calculate_tx_hash: lower-case hex of the SHA-256 digest of the raw bytes,
\* given here on the transactions of the modelled blocks (first digest bytes).
calculate_tx_hash(tx) ==
    CASE tx = "txA" -> "d2a2e7f3"
      [] tx = "txB" -> "06f4c1b9"
      [] tx = "txC" -> "9be0a55c"
      [] OTHER -> "e3b0c442"

\* The characters of the attribute values the model parses as numbers (a
\* string is an atom of the model); any other attribute value of the model
\* starts with a letter.
Chars(s) ==
    CASE s = "" -> << >>
      [] s = "0" -> << "0" >>
      [] s = "1" -> << "1" >>
      [] s = "2" -> << "2" >>
      [] s = "7" -> << "7" >>
      [] s = "50" -> << "5", "0" >>
      [] s = "100" -> << "1", "0", "0" >>
      [] s = "007" -> << "0", "0", "7" >>
      [] s = "+5" -> << "+", "5" >>
      [] s = "-1" -> << "-", "1" >>
      [] s = "1.5" -> << "1", ".", "5" >>
      [] s = "4294967295" -> << "4", "2", "9", "4", "9", "6", "7", "2", "9", "5" >>
      [] s = "4294967296" -> << "4", "2", "9", "4", "9", "6", "7", "2", "9", "6" >>
      [] s = "340282366920938463463374607431768211455" ->
            << "3", "4", "0", "2", "8", "2", "3", "6", "6", "9", "2", "0", "9",
               "3", "8", "4", "6", "3", "4", "6", "3", "3", "7", "4", "6", "0",
               "7", "4", "3", "1", "7", "6", "8", "2", "1", "1", "4", "5", "5" >>
      [] s = "340282366920938463463374607431768211456" ->
            << "3", "4", "0", "2", "8", "2", "3", "6", "6", "9", "2", "0", "9",
               "3", "8", "4", "6", "3", "4", "6", "3", "3", "7", "4", "6", "0",
               "7", "4", "3", "1", "7", "6", "8", "2", "1", "1", "4", "5", "6" >>
      [] OTHER -> << "a" >>

DigitChars == << "0", "1", "2", "3", "4", "5", "6", "7", "8", "9" >>

IsDigit(c) == \E i \in 1..Len(DigitChars) : DigitChars[i] = c

DigitValue(c) == (CHOOSE i \in 1..Len(DigitChars) : DigitChars[i] = c) - 1

\* A digit string without its leading zeros ("0" for zero): the number it
\* denotes, whatever its size.
RECURSIVE StripLeadingZeros(_)
StripLeadingZeros(digits) ==
    IF Len(digits) > 1 /\ Head(digits) = "0"
    THEN StripLeadingZeros(Tail(digits))
    ELSE digits

\* a <= b for two numbers written without leading zeros.
RECURSIVE DigitsLeq(_, _)
DigitsLeq(a, b) ==
    IF Len(a) # Len(b) THEN Len(a) < Len(b)
    ELSE IF a = << >> THEN TRUE
    ELSE IF Head(a) # Head(b) THEN DigitValue(Head(a)) < DigitValue(Head(b))
    ELSE DigitsLeq(Tail(a), Tail(b))

\* u32::MAX and u128::MAX.
U32Max == Chars("4294967295")
U128Max == Chars("340282366920938463463374607431768211455")

\* str::parse for an unsigned integer type of maximum `max`: an optional
\* leading "+", then at least one character, all of them decimal digits, and
\* a value that fits the type.  The value is the number's digits.
ParseUnsigned(s, max) ==
    LET cs == Chars(s)
        digits == IF cs # << >> /\ Head(cs) = "+" THEN Tail(cs) ELSE cs
    IN  IF cs = << >> THEN Err("cannot parse integer from empty string")
        ELSE IF digits = << >> \/ \E i \in 1..Len(digits) : ~IsDigit(digits[i])
        THEN Err("invalid digit found in string")
        ELSE IF ~DigitsLeq(StripLeadingZeros(digits), max)
        THEN Err("number too large to fit in target type")
        ELSE Ok(StripLeadingZeros(digits))

\* Mutant of ParseU32: msg_index is parsed with the width of amount.
ParseU32AsU128(s) == ParseUnsigned(s, U128Max)

\* `.parse::<u32>()` and `.parse::<u128>()`.
ParseU32(s) == ParseUnsigned(s, U32Max)

ParseU128(s) == ParseUnsigned(s, U128Max)

\* Mutant of AttrGet: the first occurrence of a key stays.
AttrGetFirst(attributes, key) ==
    LET idx == { i \in 1..Len(attributes) : attributes[i][1] = key }
    IN  IF idx = {} THEN None
        ELSE Some(attributes[CHOOSE i \in idx : \A j \in idx : i <= j][2])

\* attrs.get(key) on the HashMap collected from event.attributes: collecting
\* inserts the pairs in order, so the last occurrence of a key stays.
AttrGet(attributes, key) ==
    LET idx == { i \in 1..Len(attributes) : attributes[i][1] = key }
    IN  IF idx = {} THEN None
        ELSE Some(attributes[CHOOSE i \in idx : \A j \in idx : j <= i][2])

\* Mutant of IsWasm: the kind of the event is not looked at.
IsWasmAnyKind(kind) == TRUE

\* `event.kind != "wasm"` is the first filter.
IsWasm(kind) == kind = "wasm"

\* Mutant of IsOurContract: an event without _contract_address passes.
IsOurContractOrAbsent(addr, address) == addr = None \/ addr = Some(address)

\* `attrs.get("_contract_address") != Some(&self.contract_address)`
IsOurContract(addr, address) == addr = Some(address)

\* `action` is peg_out or peg_in.
IsPegAction(action) == action = Some("peg_out") \/ action = Some("peg_in")

\* Mutant of parse_contract_event: amount and msg_index of a wasm event are
\* parsed before the contract address and the action are looked at.
parse_contract_event_fields_first(event, address) ==
    LET get(k) == AttrGet(event.attributes, k)
        amount == IF get("amount") = None THEN Err("Missing amount")
                  ELSE ParseU128(get("amount").v)
        msg_index == IF get("msg_index") = None THEN Err("Missing msg_index")
                     ELSE ParseU32(get("msg_index").v)
    IN  IF ~IsWasm(event.kind) THEN Ok(None)
        ELSE IF amount.tag = "Err" THEN Err("Failed to parse amount")
        ELSE IF msg_index.tag = "Err" THEN Err("Failed to parse msg_index")
        ELSE IF ~IsOurContract(get("_contract_address"), address)
                \/ ~IsPegAction(get("action"))
        THEN Ok(None)
        ELSE IF get("action") = Some("peg_in")
        THEN IF get("receiver") = None THEN Err("Missing receiver")
             ELSE Ok(Some([type |-> "PegIn", msg_index |-> msg_index.v,
                           receiver |-> get("receiver").v, amount |-> amount.v]))
        ELSE IF get("sender") = None THEN Err("Missing sender")
        ELSE IF get("btc_address") = None THEN Err("Missing btc_address")
        ELSE IF get("operator_btc_pk") = None THEN Err("Missing operator_btc_pk")
        ELSE Ok(Some([type |-> "PegOut", msg_index |-> msg_index.v,
                      sender |-> get("sender").v,
                      btc_address |-> get("btc_address").v,
                      operator_btc_pk |-> get("operator_btc_pk").v,
                      amount |-> amount.v]))

\* EventListener::parse_contract_event: Ok(None), Ok(Some(event)) or Err.
parse_contract_event(event, address) ==
    LET get(k) == AttrGet(event.attributes, k)
        amount == IF get("amount") = None THEN Err("Missing amount")
                  ELSE ParseU128(get("amount").v)
        msg_index == IF get("msg_index") = None THEN Err("Missing msg_index")
                     ELSE ParseU32(get("msg_index").v)
    IN  IF ~IsWasm(event.kind) THEN Ok(None)
        ELSE IF ~IsOurContract(get("_contract_address"), address)
                \/ ~IsPegAction(get("action"))
        THEN Ok(None)
        ELSE IF amount.tag = "Err" THEN Err("Failed to parse amount")
        ELSE IF msg_index.tag = "Err" THEN Err("Failed to parse msg_index")
        ELSE IF get("action") = Some("peg_in")
        THEN IF get("receiver") = None THEN Err("Missing receiver")
             ELSE Ok(Some([type |-> "PegIn", msg_index |-> msg_index.v,
                           receiver |-> get("receiver").v, amount |-> amount.v]))
        ELSE IF get("action") = Some("peg_out")
        THEN IF get("sender") = None THEN Err("Missing sender")
             ELSE IF get("btc_address") = None THEN Err("Missing btc_address")
             ELSE IF get("operator_btc_pk") = None THEN Err("Missing operator_btc_pk")
             ELSE Ok(Some([type |-> "PegOut", msg_index |-> msg_index.v,
                           sender |-> get("sender").v,
                           btc_address |-> get("btc_address").v,
                           operator_btc_pk |-> get("operator_btc_pk").v,
                           amount |-> amount.v]))
        ELSE Ok(None)

\* Mutant of get_block_events: without the length comparison, the
\* transactions are paired with the results as far as both lists go.
get_block_events_zip(block) ==
    IF block.txs_results = None THEN << >>
    ELSE [i \in 1..(IF Len(block.txs) < Len(block.txs_results.v)
                    THEN Len(block.txs) ELSE Len(block.txs_results.v)) |->
            << calculate_tx_hash(block.txs[i]), block.txs_results.v[i] >>]

\* The Ok value of EventListener::get_block_events once both queries have
\* answered: (tx_hash, events) per transaction, or nothing when there are no
\* results or the two lists differ in length.
get_block_events(block) ==
    IF block.txs_results = None THEN << >>
    ELSE IF Len(block.txs) = Len(block.txs_results.v)
    THEN [i \in 1..Len(block.txs) |->
            << calculate_tx_hash(block.txs[i]), block.txs_results.v[i] >>]
    ELSE << >>

\* Every event of tx_events paired with the one hash `hash`.
RECURSIVE FlattenWithHash(_, _)
FlattenWithHash(tx_events, hash) ==
    IF tx_events = << >> THEN << >>
    ELSE [i \in 1..Len(Head(tx_events)[2]) |-> << hash, Head(tx_events)[2][i] >>]
         \o FlattenWithHash(Tail(tx_events), hash)

\* Mutant of FlattenTxEvents: tx_hash is not rebound per transaction, every
\* event carries the hash of the block's first transaction.
FlattenTxEventsFirstHash(tx_events) ==
    IF tx_events = << >> THEN << >>
    ELSE FlattenWithHash(tx_events, Head(tx_events)[1])

\* The (tx_hash, raw event) pairs in the order the two nested loops of
\* process_block visit them.
RECURSIVE FlattenTxEvents(_)
FlattenTxEvents(tx_events) ==
    IF tx_events = << >> THEN << >>
    ELSE LET first == Head(tx_events)
         IN  [i \in 1..Len(first[2]) |-> << first[1], first[2][i] >>]
             \o FlattenTxEvents(Tail(tx_events))

\* Mutant of CollectContractEvents: a parse error ends the collecting and
\* the events pushed so far are the batch.
RECURSIVE CollectContractEventsPartial(_, _)
CollectContractEventsPartial(pairs, acc) ==
    IF pairs = << >> THEN Ok(acc)
    ELSE LET r == parse_contract_event(Head(pairs)[2], contract_address)
         IN  IF r.tag = "Err" THEN Ok(acc)
             ELSE IF r.v = None THEN CollectContractEventsPartial(Tail(pairs), acc)
             ELSE CollectContractEventsPartial(Tail(pairs),
                                               Append(acc, << Head(pairs)[1], r.v.v >>))

\* The collecting loops of process_block (events.rs:126-135): the first
\* parse error leaves the function through `?`; otherwise the parsed events
\* are pushed in order with their transaction's hash.
RECURSIVE CollectContractEvents(_, _)
CollectContractEvents(pairs, acc) ==
    IF pairs = << >> THEN Ok(acc)
    ELSE LET r == parse_contract_event(Head(pairs)[2], contract_address)
         IN  IF r.tag = "Err" THEN r
             ELSE IF r.v = None THEN CollectContractEvents(Tail(pairs), acc)
             ELSE CollectContractEvents(Tail(pairs),
                                        Append(acc, << Head(pairs)[1], r.v.v >>))

contract_events_of(block) ==
    CollectContractEvents(FlattenTxEvents(get_block_events(block)), << >>)

(***************************************************************************)
(* State.                                                                  *)
(***************************************************************************)
VARIABLES
    chain,                  \* height -> block, as the node's RPC serves it
    starting_height,        \* the last_processed_height given to new()
    last_processed_height,  \* EventListener.last_processed_height
    seq_pc,                 \* where start()/process_blocks_sequentially is
    latest_height,          \* the signal the sequencer is catching up to
    height,                 \* the loop variable of the for loop
    contract_events,        \* process_block's batch while it awaits send()
    height_chan,            \* broadcast channel: values height_rx has not read
    lagged,                 \* height_rx has fallen behind: values were overwritten
    tr_pc,                  \* where the spawned subscribe_to_events task is
    notifs,                 \* items the notification stream has yielded
    rpc_failures,           \* get_block_events calls that have failed
    event_chan,             \* mpsc delivery channel: batches not yet read
    consumer_alive,         \* the mpsc Receiver has not been dropped
    start_result,           \* what start() returned, "none" while it runs
    fetched,                \* history: heights passed to get_block_events
    outcomes,               \* history: height -> results process_block returned
    sent,                   \* history: batches the delivery channel accepted
    batch_from,             \* history: last_processed_height when the batch began
    batch_failed_at,        \* history: first height that failed in the batch, or 0
    overflowed,             \* history: the broadcast channel overwrote a value
    last_signal,            \* history: the value recv() returned last, or 0
    raw_event,              \* the argument of a lone parse_contract_event call
    parse_result,           \* what that call returned
    validation,             \* a lone validate_bech32_address call, or None
    stream_hist             \* history: an Err item of the stream, a publish after it

vars == << chain, starting_height, last_processed_height, seq_pc, latest_height,
           height, contract_events, height_chan, lagged, tr_pc, notifs, rpc_failures,
           event_chan, consumer_alive, start_result, fetched, outcomes, sent,
           batch_from, batch_failed_at, overflowed, last_signal, raw_event,
           parse_result, validation, stream_hist >>

Heights == 1..MaxHeight

\* The chains the listener is run against: every block kind at every
\* height (the rotations of BlockSeq), and the chains of one block kind.
Chains ==
    { [h \in Heights |-> BlockSeq[((h + off) % Len(BlockSeq)) + 1]] : off \in 1..Len(BlockSeq) }
        \cup { [h \in Heights |-> b] : b \in Blocks }

BlockEvents(h, events) == [height |-> h, events |-> events]

\* EventListener::new: the caller's starting height, fresh channels; start()
\* has not been called yet.
Init ==
    /\ chain \in Chains
    /\ starting_height \in 0..MaxStart
    /\ last_processed_height = starting_height
    /\ seq_pc = "new"
    /\ latest_height = 0
    /\ height = 0
    /\ contract_events = << >>
    /\ height_chan = << >>
    /\ lagged = FALSE
    /\ tr_pc = "none"
    /\ notifs = 0
    /\ rpc_failures = 0
    /\ event_chan = << >>
    /\ consumer_alive = TRUE
    /\ start_result = "none"
    /\ fetched = {}
    /\ outcomes = [h \in Heights |-> {}]
    /\ sent = {}
    /\ batch_from = starting_height
    /\ batch_failed_at = 0
    /\ overflowed = FALSE
    /\ last_signal = 0
    /\ stream_hist = "none"
    /\ validation = None
    /\ raw_event = None
    /\ parse_result = None

(***************************************************************************)
(* The sequencer: start() and process_blocks_sequentially.                 *)
(***************************************************************************)
\* start(): spawns the transport task, then enters
\* process_blocks_sequentially, which resubscribes to the height channel
\* and waits in recv().  The resubscribe follows the spawn without an await,
\* and the spawned task publishes nothing before its subscribe() has
\* answered, so no signal precedes the resubscribe.
Start ==
    /\ seq_pc = "new"
    /\ seq_pc' = "recv"
    /\ tr_pc' = "subscribing"
    /\ UNCHANGED << stream_hist, validation, raw_event, parse_result, last_signal, chain, starting_height, last_processed_height,
                    latest_height, height, contract_events, height_chan,
                    lagged, notifs, rpc_failures, event_chan, consumer_alive,
                    start_result, fetched, outcomes, sent, batch_from,
                    batch_failed_at, overflowed >>

\* Mutant of SignalIsStale: `<` for `<=`, so a signal for the height
\* processed last is taken for a new one and the loop body runs for it.
SignalIsStaleStrict(latest, last) == latest < last

\* `if latest_height <= self.last_processed_height { continue; }`
SignalIsStale(latest, last) == latest <= last

\* Mutant of RangeStart: every range begins at block 1.
RangeStartAtFirst(last) == 1

\* Mutant of RangeStart: the range begins at last_processed_height itself
\* (at block 1 for a listener started at 0), so the last processed height
\* is processed again.
RangeStartAtLast(last) == IF last = 0 THEN 1 ELSE last

\* First height of `self.last_processed_height + 1..=latest_height`.
RangeStart(last) == last + 1

\* height_rx.recv() yields Ok(latest_height): a stale signal is skipped,
\* any other starts the for loop over last_processed_height + 1..=latest.
RecvSignal ==
    /\ seq_pc = "recv"
    /\ ~lagged
    /\ height_chan # << >>
    /\ height_chan' = Tail(height_chan)
    /\ last_signal' = Head(height_chan)
    /\ IF SignalIsStale(Head(height_chan), last_processed_height)
       THEN UNCHANGED << seq_pc, latest_height, height, batch_from, batch_failed_at >>
       ELSE /\ seq_pc' = "loop"
            /\ latest_height' = Head(height_chan)
            /\ height' = RangeStart(last_processed_height)
            /\ batch_from' = last_processed_height
            /\ batch_failed_at' = 0
    /\ UNCHANGED << stream_hist, validation, raw_event, parse_result, chain, starting_height, last_processed_height,
                    contract_events, lagged, tr_pc, notifs, rpc_failures,
                    event_chan, consumer_alive, start_result, fetched,
                    outcomes, sent, overflowed >>

\* height_rx.recv() yields Err(Lagged): `while let Ok(..)` ends and the
\* function, and with it start(), returns Ok(()).
RecvLagged ==
    /\ seq_pc = "recv"
    /\ lagged
    /\ lagged' = FALSE
    /\ seq_pc' = "done"
    /\ start_result' = "Ok"
    /\ UNCHANGED << stream_hist, validation, raw_event, parse_result, last_signal, chain, starting_height, last_processed_height,
                    latest_height, height, contract_events, height_chan,
                    tr_pc, notifs, rpc_failures, event_chan, consumer_alive,
                    fetched, outcomes, sent, batch_from, batch_failed_at,
                    overflowed >>

\* Mutant of LoopPcAfter: an exclusive range (`..latest_height`), which
\* leaves the loop before the signalled height itself.
LoopPcAfterExclusive(h, latest) == IF h + 1 >= latest THEN "recv" ELSE "loop"

\* The for loop's step after the body ran for `height`: the next height of
\* the range, or back to recv() when the range is exhausted.
LoopPcAfter(h, latest) == IF h >= latest THEN "recv" ELSE "loop"

LoopHeightAfter(h, latest) == IF h >= latest THEN h ELSE h + 1

\* Mutant of BodyFailed: the error leaves the loop for good (`?` in place
\* of the logged `continue`).
BodyFailedStops(result) ==
    /\ outcomes' = [outcomes EXCEPT ![height] = @ \cup { result }]
    /\ batch_failed_at' = IF batch_failed_at = 0 THEN height ELSE batch_failed_at
    /\ seq_pc' = "done"
    /\ UNCHANGED << height, last_processed_height >>

\* The body's error arm: `tracing::error!(..); continue;`
BodyFailed(result) ==
    /\ outcomes' = [outcomes EXCEPT ![height] = @ \cup { result }]
    /\ batch_failed_at' = IF batch_failed_at = 0 THEN height ELSE batch_failed_at
    /\ seq_pc' = LoopPcAfter(height, latest_height)
    /\ height' = LoopHeightAfter(height, latest_height)
    /\ UNCHANGED last_processed_height

\* The body's success arm: `self.last_processed_height = height;`
BodySucceeded ==
    /\ outcomes' = [outcomes EXCEPT ![height] = @ \cup { "ok" }]
    /\ UNCHANGED batch_failed_at
    /\ last_processed_height' = height
    /\ seq_pc' = LoopPcAfter(height, latest_height)
    /\ height' = LoopHeightAfter(height, latest_height)

\* Mutant of ShouldSend: a batch is sent for every block.
ShouldSendAlways(events) == TRUE

\* `if !contract_events.is_empty()`: only a non-empty batch is sent.
ShouldSend(events) == events # << >>

\* process_block(height) up to its send: a query of get_block_events fails,
\* or an event fails to parse, or the block yields no event (Ok without a
\* send), or the batch is ready to be sent.  (Height::try_from cannot fail
\* for the heights of the model, which are far below 2^63.)
ProcessBlock ==
    /\ seq_pc = "loop"
    /\ fetched' = fetched \cup { height }
    /\ \E rpc_ok \in BOOLEAN :
          IF ~rpc_ok
          THEN /\ rpc_failures < MaxRpcFailures
               /\ rpc_failures' = rpc_failures + 1
               /\ BodyFailed("fetch_err")
               /\ UNCHANGED contract_events
          ELSE /\ UNCHANGED rpc_failures
               /\ LET r == contract_events_of(chain[height])
                  IN  IF r.tag = "Err"
                      THEN BodyFailed("parse_err") /\ UNCHANGED contract_events
                      ELSE IF ~ShouldSend(r.v)
                      THEN BodySucceeded /\ UNCHANGED contract_events
                      ELSE /\ contract_events' = r.v
                           /\ seq_pc' = "send"
                           /\ UNCHANGED << outcomes, batch_failed_at,
                                           last_processed_height, height >>
    /\ UNCHANGED << stream_hist, validation, raw_event, parse_result, last_signal, chain, starting_height, latest_height, height_chan,
                    lagged, tr_pc, notifs, event_chan, consumer_alive,
                    start_result, sent, batch_from, overflowed >>

\* Mutant of HasCapacity: an unbounded delivery channel.
HasCapacityAlways(chan) == TRUE

\* The bounded mpsc channel takes a message while it holds fewer than its
\* capacity.
HasCapacity(chan) == Len(chan) < EventChanCap

\* event_sender.send(block_events).await: an error once the receiver is
\* gone, the batch queued when the channel has room, and no step (the
\* sequencer waits) while the channel is full.
SendBlockEvents ==
    /\ seq_pc = "send"
    /\ IF ~consumer_alive
       THEN BodyFailed("send_err") /\ UNCHANGED << event_chan, sent >>
       ELSE /\ HasCapacity(event_chan)
            /\ event_chan' = Append(event_chan, BlockEvents(height, contract_events))
            /\ sent' = sent \cup { BlockEvents(height, contract_events) }
            /\ BodySucceeded
    /\ contract_events' = << >>
    /\ UNCHANGED << stream_hist, validation, raw_event, parse_result, last_signal, chain, starting_height, latest_height, height_chan,
                    lagged, tr_pc, notifs, rpc_failures, consumer_alive,
                    start_result, fetched, batch_from, overflowed >>

(***************************************************************************)
(* The transport task: subscribe_to_events.                                *)
(***************************************************************************)
\* The items the notification stream can yield: Ok(event) with the event's
\* data, or Err.  A NewBlock/LegacyNewBlock carries an optional block.
NewBlock(block) == [item |-> "Ok", data |-> "NewBlock", block |-> block]
LegacyNewBlock(block) == [item |-> "Ok", data |-> "LegacyNewBlock", block |-> block]
TxData == [item |-> "Ok", data |-> "Tx", block |-> None]
StreamError == [item |-> "Err", data |-> "none", block |-> None]

StreamItems ==
    { NewBlock(Some(h)) : h \in 0..MaxHeight } \cup { NewBlock(None) }
        \cup { LegacyNewBlock(Some(h)) : h \in 0..MaxHeight }
        \cup { LegacyNewBlock(None), TxData, StreamError }

\* `let height = match &event.data { .. }`: the header's height of a
\* (legacy) new block, the default 0 without a block or for other data.
NotificationHeight(event) ==
    IF event.data \in { "NewBlock", "LegacyNewBlock" }
    THEN IF event.block = None THEN 0 ELSE event.block.v
    ELSE 0

\* Mutant of ShouldPublish: the height is published whatever it is.
ShouldPublishAlways(h) == TRUE

\* `if height > 0 { height_tx.send(height) }`
ShouldPublish(h) == h > 0

\* broadcast::Sender::send on a channel of EVENT_PROCESSOR_SIZE slots, seen
\* from height_rx: a value is queued; when height_rx already has
\* EVENT_PROCESSOR_SIZE unread values the oldest is overwritten and height_rx
\* is lagging.  The send itself cannot fail: the listener keeps
\* latest_height_rx, so there is always a receiver.
ChanAfterSend(chan, h) ==
    IF Len(chan) < EVENT_PROCESSOR_SIZE THEN Append(chan, h)
    ELSE Append(Tail(chan), h)

\* ws_client.subscribe(query).await succeeds: the task enters its loop.
Subscribe ==
    /\ tr_pc = "subscribing"
    /\ tr_pc' = "streaming"
    /\ UNCHANGED << stream_hist, validation, raw_event, parse_result, last_signal, chain, starting_height, last_processed_height, seq_pc,
                    latest_height, height, contract_events, height_chan,
                    lagged, notifs, rpc_failures, event_chan, consumer_alive,
                    start_result, fetched, outcomes, sent, batch_from,
                    batch_failed_at, overflowed >>

\* ws_client.subscribe(query).await? fails: the task returns Err, which the
\* spawned closure logs.
SubscribeFails ==
    /\ tr_pc = "subscribing"
    /\ tr_pc' = "ended"
    /\ UNCHANGED << stream_hist, validation, raw_event, parse_result, last_signal, chain, starting_height, last_processed_height, seq_pc,
                    latest_height, height, contract_events, height_chan,
                    lagged, notifs, rpc_failures, event_chan, consumer_alive,
                    start_result, fetched, outcomes, sent, batch_from,
                    batch_failed_at, overflowed >>

\* What stream_hist records: "none", then "error" once the stream has
\* yielded an Err item (logged at events.rs:199-201), then "published" once
\* a height was published after that.
HistAfterPublish(hist) == IF hist = "error" THEN "published" ELSE hist

HistAfterIgnored(hist, event_result) ==
    IF event_result.item = "Err" /\ hist = "none" THEN "error" ELSE hist

\* Mutant of Notify: an Err item of the stream ends the task (`?` in place
\* of the logging arm).
NotifyStopsOnError ==
    /\ tr_pc = "streaming"
    /\ notifs < MaxNotifs
    /\ notifs' = notifs + 1
    /\ \E event_result \in StreamItems :
          /\ tr_pc' = IF event_result.item = "Err" THEN "ended" ELSE tr_pc
          /\ IF event_result.item = "Ok" /\ ShouldPublish(NotificationHeight(event_result))
             THEN /\ height_chan' = ChanAfterSend(height_chan, NotificationHeight(event_result))
                  /\ lagged' = (lagged \/ Len(height_chan) >= EVENT_PROCESSOR_SIZE)
                  /\ overflowed' = (overflowed \/ Len(height_chan) >= EVENT_PROCESSOR_SIZE)
                  /\ stream_hist' = HistAfterPublish(stream_hist)
             ELSE /\ UNCHANGED << height_chan, lagged, overflowed >>
                  /\ stream_hist' = HistAfterIgnored(stream_hist, event_result)
    /\ UNCHANGED << validation, raw_event, parse_result, last_signal, chain, starting_height,
                    last_processed_height, seq_pc, latest_height, height,
                    contract_events, rpc_failures, event_chan, consumer_alive,
                    start_result, fetched, outcomes, sent, batch_from,
                    batch_failed_at >>

\* Mutant of Notify: the transport task records the height it publishes as
\* last_processed_height.
NotifyWritesLast ==
    /\ tr_pc = "streaming"
    /\ notifs < MaxNotifs
    /\ notifs' = notifs + 1
    /\ \E event_result \in StreamItems :
          IF event_result.item = "Ok" /\ ShouldPublish(NotificationHeight(event_result))
          THEN /\ height_chan' = ChanAfterSend(height_chan, NotificationHeight(event_result))
               /\ lagged' = (lagged \/ Len(height_chan) >= EVENT_PROCESSOR_SIZE)
               /\ overflowed' = (overflowed \/ Len(height_chan) >= EVENT_PROCESSOR_SIZE)
               /\ last_processed_height' = NotificationHeight(event_result)
               /\ stream_hist' = HistAfterPublish(stream_hist)
          ELSE /\ UNCHANGED << height_chan, lagged, overflowed, last_processed_height >>
               /\ stream_hist' = HistAfterIgnored(stream_hist, event_result)
    /\ UNCHANGED << validation, raw_event, parse_result, last_signal, chain, starting_height, seq_pc,
                    latest_height, height, contract_events, tr_pc,
                    rpc_failures, event_chan, consumer_alive, start_result,
                    fetched, outcomes, sent, batch_from, batch_failed_at >>

\* One turn of `while let Some(event_result) = event_stream.next().await`:
\* an Ok item's height is published when positive; an Err item is logged.
Notify ==
    /\ tr_pc = "streaming"
    /\ notifs < MaxNotifs
    /\ notifs' = notifs + 1
    /\ \E event_result \in StreamItems :
          IF event_result.item = "Ok" /\ ShouldPublish(NotificationHeight(event_result))
          THEN /\ height_chan' = ChanAfterSend(height_chan, NotificationHeight(event_result))
               /\ lagged' = (lagged \/ Len(height_chan) >= EVENT_PROCESSOR_SIZE)
               /\ overflowed' = (overflowed \/ Len(height_chan) >= EVENT_PROCESSOR_SIZE)
               /\ stream_hist' = HistAfterPublish(stream_hist)
          ELSE /\ UNCHANGED << height_chan, lagged, overflowed >>
               /\ stream_hist' = HistAfterIgnored(stream_hist, event_result)
    /\ UNCHANGED << validation, raw_event, parse_result, last_signal, chain, starting_height, last_processed_height, seq_pc,
                    latest_height, height, contract_events, tr_pc,
                    rpc_failures, event_chan, consumer_alive, start_result,
                    fetched, outcomes, sent, batch_from, batch_failed_at >>

\* event_stream.next() yields None (the connection is gone): the loop ends
\* and the task returns Ok(()).
StreamEnds ==
    /\ tr_pc = "streaming"
    /\ tr_pc' = "ended"
    /\ UNCHANGED << stream_hist, validation, raw_event, parse_result, last_signal, chain, starting_height, last_processed_height, seq_pc,
                    latest_height, height, contract_events, height_chan,
                    lagged, notifs, rpc_failures, event_chan, consumer_alive,
                    start_result, fetched, outcomes, sent, batch_from,
                    batch_failed_at, overflowed >>

(***************************************************************************)
(* The consumer of the delivery channel (the caller of EventListener::new).*)
(***************************************************************************)
\* event_rx.recv() takes the oldest batch.
ConsumerRecv ==
    /\ consumer_alive
    /\ event_chan # << >>
    /\ event_chan' = Tail(event_chan)
    /\ UNCHANGED << stream_hist, validation, raw_event, parse_result, last_signal, chain, starting_height, last_processed_height, seq_pc,
                    latest_height, height, contract_events, height_chan,
                    lagged, tr_pc, notifs, rpc_failures, consumer_alive,
                    start_result, fetched, outcomes, sent, batch_from,
                    batch_failed_at, overflowed >>

\* The consumer drops its Receiver; queued batches are dropped with it.
ConsumerDrop ==
    /\ consumer_alive
    /\ consumer_alive' = FALSE
    /\ event_chan' = << >>
    /\ UNCHANGED << stream_hist, validation, raw_event, parse_result, last_signal, chain, starting_height, last_processed_height, seq_pc,
                    latest_height, height, contract_events, height_chan,
                    lagged, tr_pc, notifs, rpc_failures, start_result,
                    fetched, outcomes, sent, batch_from, batch_failed_at,
                    overflowed >>

(***************************************************************************)
(* Specifications.                                                         *)
(***************************************************************************)
Next ==
    \/ Start
    \/ RecvSignal
    \/ RecvLagged
    \/ ProcessBlock
    \/ SendBlockEvents
    \/ Subscribe
    \/ SubscribeFails
    \/ Notify
    \/ StreamEnds
    \/ ConsumerRecv
    \/ ConsumerDrop

Spec == Init /\ [][Next]_vars

\* The runtime keeps polling a task that can make progress: every step of
\* the sequencer task is taken once it stays enabled.  Nothing is assumed
\* of the chain, the network or the consumer.
FairSpec ==
    /\ Spec
    /\ WF_vars(Start)
    /\ WF_vars(RecvSignal)
    /\ WF_vars(RecvLagged)
    /\ WF_vars(ProcessBlock)
    /\ WF_vars(SendBlockEvents)

(***************************************************************************)
(* parse_contract_event on its own: one call on an event drawn from        *)
(* RawEvents, by a listener configured with contract_address.              *)
(***************************************************************************)
Absent == "<absent>"

\* The attribute keys parse_contract_event looks up, in the order the
\* modelled events list them, and the values each may take.
KeyOrder ==
    << "_contract_address", "action", "msg_index", "amount", "receiver", "sender",
       "btc_address", "operator_btc_pk" >>

AttrValues ==
    { Absent, "target", "other" }
        \X { Absent, "peg_in", "peg_out", "transfer" }
        \X { Absent, "1", "abc", "-1", "4294967295", "4294967296" }
        \X { Absent, "100", "", "007", "+5", "1.5",
             "340282366920938463463374607431768211455",
             "340282366920938463463374607431768211456" }
        \X { Absent, "addrA" }
        \X { Absent, "addrB" }
        \X { Absent, "bc1q" }
        \X { Absent, "pk" }

RECURSIVE AttrsFrom(_, _)
AttrsFrom(values, i) ==
    IF i > Len(KeyOrder) THEN << >>
    ELSE (IF values[i] = Absent THEN << >> ELSE << Attr(KeyOrder[i], values[i]) >>)
         \o AttrsFrom(values, i + 1)

RawEvents ==
    { RawEvent(kind, AttrsFrom(values, 1)) :
        kind \in { "wasm", "transfer" }, values \in AttrValues }

Pending == [tag |-> "Pending"]

ParseInit ==
    /\ raw_event \in RawEvents
    /\ parse_result = Pending
    /\ chain = [h \in Heights |-> BlockEmpty]
    /\ starting_height = 0
    /\ last_processed_height = 0
    /\ seq_pc = "new"
    /\ latest_height = 0
    /\ height = 0
    /\ contract_events = << >>
    /\ height_chan = << >>
    /\ lagged = FALSE
    /\ tr_pc = "none"
    /\ notifs = 0
    /\ rpc_failures = 0
    /\ event_chan = << >>
    /\ consumer_alive = TRUE
    /\ start_result = "none"
    /\ fetched = {}
    /\ outcomes = [h \in Heights |-> {}]
    /\ sent = {}
    /\ batch_from = 0
    /\ batch_failed_at = 0
    /\ overflowed = FALSE
    /\ last_signal = 0
    /\ stream_hist = "none"
    /\ validation = None

\* One turn of process_block's inner loop on the event (events.rs:131-133):
\* self.parse_contract_event(&event), and the push of a Some result with
\* the hash of its transaction.
ParseEvent ==
    /\ parse_result = Pending
    /\ parse_result' = parse_contract_event(raw_event, contract_address)
    /\ contract_events' =
          IF parse_result'.tag = "Ok" /\ parse_result'.v # None
          THEN Append(contract_events, << calculate_tx_hash("txA"), parse_result'.v.v >>)
          ELSE contract_events
    /\ UNCHANGED << stream_hist, validation, raw_event, chain, starting_height, last_processed_height,
                    seq_pc, latest_height, height, height_chan,
                    lagged, tr_pc, notifs, rpc_failures, event_chan,
                    consumer_alive, start_result, fetched, outcomes, sent,
                    batch_from, batch_failed_at, overflowed, last_signal >>

ParseNext == ParseEvent

ParseSpec == ParseInit /\ [][ParseNext]_vars

(***************************************************************************)
(* parse_contract_event on events in which one attribute key occurs twice. *)
(***************************************************************************)
\* The values a key takes in those events.
KeyValues(key) ==
    CASE key = "_contract_address" -> { "target", "other" }
      [] key = "action" -> { "peg_in", "peg_out", "transfer" }
      [] key = "msg_index" -> { "1", "2", "abc", "4294967296" }
      [] key = "amount" -> { "100", "50", "", "1.5" }
      [] key = "receiver" -> { "addrA", "addrC" }
      [] key = "sender" -> { "addrB", "addrC" }
      [] key = "btc_address" -> { "bc1q", "bc1p" }
      [] key = "operator_btc_pk" -> { "pk", "pk2" }

\* A well-formed event of the target contract holding every key once.
FullAttrs(action) ==
    << Attr("_contract_address", "target"), Attr("action", action),
       Attr("msg_index", "1"), Attr("amount", "100"), Attr("receiver", "addrA"),
       Attr("sender", "addrB"), Attr("btc_address", "bc1q"),
       Attr("operator_btc_pk", "pk") >>

WithoutKey(attributes, key) == SelectSeq(attributes, LAMBDA a : a[1] # key)

\* Events in which `key` occurs twice, with two different values: apart, at
\* both ends of the list, or side by side at its end.
DupKeyEvents ==
    { RawEvent("wasm", attributes) :
        attributes \in UNION { UNION { UNION {
            { << Attr(k, v1) >> \o WithoutKey(FullAttrs(a), k) \o << Attr(k, v2) >>,
              WithoutKey(FullAttrs(a), k) \o << Attr(k, v1), Attr(k, v2) >> } :
                v1 \in KeyValues(k) \ { v2 } } : v2 \in KeyValues(k) } :
                    k \in { KeyOrder[i] : i \in 1..Len(KeyOrder) },
                    a \in { "peg_in", "peg_out" } } }

DupKeyInit ==
    /\ raw_event \in DupKeyEvents
    /\ parse_result = Pending
    /\ chain = [h \in Heights |-> BlockEmpty]
    /\ starting_height = 0
    /\ last_processed_height = 0
    /\ seq_pc = "new"
    /\ latest_height = 0
    /\ height = 0
    /\ contract_events = << >>
    /\ height_chan = << >>
    /\ lagged = FALSE
    /\ tr_pc = "none"
    /\ notifs = 0
    /\ rpc_failures = 0
    /\ event_chan = << >>
    /\ consumer_alive = TRUE
    /\ start_result = "none"
    /\ fetched = {}
    /\ outcomes = [h \in Heights |-> {}]
    /\ sent = {}
    /\ batch_from = 0
    /\ batch_failed_at = 0
    /\ overflowed = FALSE
    /\ last_signal = 0
    /\ stream_hist = "none"
    /\ validation = None

DupKeySpec == DupKeyInit /\ [][ParseNext]_vars

(***************************************************************************)
(* CosmWasmClient::validate_bech32_address (src/src/client.rs) on its own. *)
(***************************************************************************)
\* The addresses AccountId::from_str accepts, each with its prefix, and the
\* strings it refuses, as the test of client.rs lists them.
valid_addresses ==
    << << "cosmos1syavy2npfyt9tcncdtsdzf7kny9lh777pahuux", "cosmos" >>,
       << "osmo17a8smrhauph552zkz5864vjafz9pszpezepz68", "osmo" >>,
       << "bbn1ad2u30qd2vx6es4pmn28y23qtz6hea7708574y", "bbn" >>,
       << "bbn17p9rzwnnfxcjp32un9ug7yhhzgtkhvl9jfksztgw5uh69wac2pgs6spw0g", "bbn" >> >>

invalid_addresses ==
    << "not-a-bech32-address", "cosmos1invalid", "cosmostooshort",
       "1cosmos1syavy2npfyt9tcncdtsdzf7kny9lh777pahuux", "" >>

\* AccountId::from_str: the account id (with its prefix) of a well-formed
\* address, an error for anything else.
AccountIdFromStr(address) ==
    IF \E i \in 1..Len(valid_addresses) : valid_addresses[i][1] = address
    THEN Ok([prefix |->
              valid_addresses[CHOOSE i \in 1..Len(valid_addresses) :
                                  valid_addresses[i][1] = address][2]])
    ELSE Err("invalid bech32")

\* Mutant of validate_bech32_address: the expected prefix is not compared.
validate_bech32_address_any_prefix(address, expected_prefix) ==
    IF AccountIdFromStr(address).tag = "Err" THEN Err("Invalid bech32 address")
    ELSE Ok(<< >>)

\* CosmWasmClient::validate_bech32_address
validate_bech32_address(address, expected_prefix) ==
    LET account_id == AccountIdFromStr(address)
    IN  IF account_id.tag = "Err" THEN Err("Invalid bech32 address")
        ELSE IF expected_prefix # None /\ account_id.v.prefix # expected_prefix.v
        THEN Err("Address has wrong prefix")
        ELSE Ok(<< >>)

\* The calls made: every listed address, with no expected prefix and with
\* each of a few prefixes.
Addresses ==
    { valid_addresses[i][1] : i \in 1..Len(valid_addresses) }
        \cup { invalid_addresses[i] : i \in 1..Len(invalid_addresses) }

ExpectedPrefixes ==
    { None } \cup { Some(p) : p \in { "cosmos", "osmo", "bbn", "bb", "cosmos1", "" } }

ValidateInit ==
    /\ validation \in { [address |-> a, expected_prefix |-> p, result |-> Pending] :
                            a \in Addresses, p \in ExpectedPrefixes }
    /\ raw_event = None
    /\ parse_result = None
    /\ chain = [h \in Heights |-> BlockEmpty]
    /\ starting_height = 0
    /\ last_processed_height = 0
    /\ seq_pc = "new"
    /\ latest_height = 0
    /\ height = 0
    /\ contract_events = << >>
    /\ height_chan = << >>
    /\ lagged = FALSE
    /\ tr_pc = "none"
    /\ notifs = 0
    /\ rpc_failures = 0
    /\ event_chan = << >>
    /\ consumer_alive = TRUE
    /\ start_result = "none"
    /\ fetched = {}
    /\ outcomes = [h \in Heights |-> {}]
    /\ sent = {}
    /\ batch_from = 0
    /\ batch_failed_at = 0
    /\ overflowed = FALSE
    /\ last_signal = 0
    /\ stream_hist = "none"

\* CosmWasmClient::validate_bech32_address(address, expected_prefix)
ValidateAddress ==
    /\ validation.result = Pending
    /\ validation' =
          [validation EXCEPT !.result =
              validate_bech32_address(validation.address, validation.expected_prefix)]
    /\ UNCHANGED << stream_hist, raw_event, parse_result, chain, starting_height,
                    last_processed_height, seq_pc, latest_height, height,
                    contract_events, height_chan, lagged, tr_pc, notifs,
                    rpc_failures, event_chan, consumer_alive, start_result,
                    fetched, outcomes, sent, batch_from, batch_failed_at,
                    overflowed, last_signal >>

ValidateNext == ValidateAddress

ValidateSpec == ValidateInit /\ [][ValidateNext]_vars

TypeOK ==
    /\ chain \in [Heights -> Blocks]
    /\ starting_height \in 0..MaxStart
    /\ last_processed_height \in 0..MaxHeight
    /\ seq_pc \in { "new", "recv", "loop", "send", "done" }
    /\ latest_height \in 0..MaxHeight
    /\ height \in 0..MaxHeight
    /\ height_chan \in Seq(Heights) /\ Len(height_chan) <= EVENT_PROCESSOR_SIZE
    /\ lagged \in BOOLEAN
    /\ tr_pc \in { "none", "subscribing", "streaming", "ended" }
    /\ notifs \in 0..MaxNotifs
    /\ rpc_failures \in 0..MaxRpcFailures
    /\ Len(event_chan) <= EventChanCap
    /\ fetched \subseteq Heights
    /\ outcomes \in [Heights -> SUBSET { "ok", "fetch_err", "parse_err", "send_err" }]
    /\ batch_from \in 0..MaxHeight
    /\ batch_failed_at \in 0..MaxHeight
    /\ consumer_alive \in BOOLEAN
    /\ start_result \in { "none", "Ok", "Err" }
    /\ overflowed \in BOOLEAN
    /\ last_signal \in 0..MaxHeight
    /\ stream_hist \in { "none", "error", "published" }

(***************************************************************************)
(* Properties.                                                             *)
(***************************************************************************)
\* Heights for which some process_block call returned Ok.
Succeeded == { h \in Heights : "ok" \in outcomes[h] }

MaxOf(S) == IF S = {} THEN 0 ELSE CHOOSE x \in S : \A y \in S : y <= x

\* The (tx_hash, event) pairs of a block's events that parse to an event,
\* events that fail to parse left out.
RECURSIVE ParsedEvents(_)
ParsedEvents(pairs) ==
    IF pairs = << >> THEN << >>
    ELSE LET r == parse_contract_event(Head(pairs)[2], contract_address)
         IN  IF r.tag = "Ok" /\ r.v # None
             THEN << << Head(pairs)[1], r.v.v >> >> \o ParsedEvents(Tail(pairs))
             ELSE ParsedEvents(Tail(pairs))

\* C1: every height in (starting_height, last_processed_height] had a
\* process_block call that completed successfully; last_processed_height is
\* never moved to or past a height whose process_block call failed.
C1_NeverAdvancedPastFailure ==
    \A h \in (starting_height + 1)..last_processed_height : h \in Succeeded

\* C2 (as stated): every height passed to get_block_events is larger than
\* every height passed before it (strictly increasing, no height twice), and
\* the heights passed are exactly starting_height+1 .. the largest so far.
C2_FetchedStrictlyIncreasing ==
    /\ [](fetched = (starting_height + 1)..MaxOf(fetched))
    /\ [][ProcessBlock => \A h \in fetched : height > h]_vars

\* C2 (amended): the heights passed to get_block_events are exactly
\* starting_height+1 .. the largest so far, a height is first passed only
\* after its predecessor, and a height is passed again only while no
\* process_block call for it has succeeded (it is above
\* last_processed_height).
C2_FetchedGapFreeRetryOnlyFailed ==
    /\ [](fetched = (starting_height + 1)..MaxOf(fetched))
    /\ [][ProcessBlock =>
            /\ height \notin Succeeded
            /\ height > last_processed_height
            /\ (height = starting_height + 1 \/ height - 1 \in fetched)]_vars

\* C2 witness: a height was passed again after a failed call and succeeded.
C2_Witness ==
    \E h \in Heights : "fetch_err" \in outcomes[h] /\ "ok" \in outcomes[h]

\* C3: once process_block has failed for height h in a batch, the batch is
\* over: the sequencer is back in recv() with last_processed_height = h - 1,
\* no higher height having been attempted.
C3_BatchAbandonedOnFailure ==
    batch_failed_at # 0 =>
        /\ seq_pc = "recv"
        /\ last_processed_height = batch_failed_at - 1

\* C4: an event that fails to parse is dropped alone: whenever process_block
\* met a parse error at height h, the block's other events that do parse
\* were delivered as the batch of height h.
C4_SiblingEventsDelivered ==
    \A h \in Heights :
        ("parse_err" \in outcomes[h]
            /\ ParsedEvents(FlattenTxEvents(get_block_events(chain[h]))) # << >>)
        => BlockEvents(h, ParsedEvents(FlattenTxEvents(get_block_events(chain[h]))))
               \in sent

\* C5: a send that fails because the consumer is gone is fatal: start() has
\* returned an error (and so fetches nothing further).
C5_SendFailureIsFatal ==
    (\E h \in Heights : "send_err" \in outcomes[h]) =>
        (seq_pc = "done" /\ start_result = "Err")

\* C6: start() never returns Ok: when it has returned, it returned an error,
\* and the transport connection or the consumer is gone.
C6_StartNeverReturnsOk ==
    seq_pc = "done" =>
        (start_result = "Err" /\ (tr_pc = "ended" \/ ~consumer_alive))

\* C7: once the transport task has ended, start() eventually returns an
\* error.
C7_TransportEndSurfaces == (tr_pc = "ended") ~> (start_result = "Err")

\* C8: an overflow of the height-signal channel does not stop the sequencer:
\* start() is still running after it.
C8_OverflowKeepsRunning == overflowed => start_result = "none"

\* C9: each batch the delivery channel accepts has a height above every
\* batch accepted before it, and the queued batches are in ascending height
\* order.
C9_DeliveredHeightsIncreasing ==
    /\ [](\A i, j \in 1..Len(event_chan) :
            i < j => event_chan[i].height < event_chan[j].height)
    /\ [][Len(event_chan') = Len(event_chan) + 1 =>
            \A b \in sent : event_chan'[Len(event_chan')].height > b.height]_vars

\* C9 witness: two batches have been accepted and the later one is queued.
C9_Witness ==
    /\ Cardinality(sent) >= 2
    /\ event_chan # << >>

\* C10: in a batch for signal H begun at last_processed_height = L in which
\* no call failed, each process_block call is for last_processed_height + 1
\* (so L+1, L+2, ... in order, none above H), the batch ends with
\* last_processed_height = H, and the next signal is taken off the channel
\* only after that.
C10_FullRangeInOrder ==
    /\ []((seq_pc \in { "loop", "send" } /\ batch_failed_at = 0) =>
            /\ height = last_processed_height + 1
            /\ batch_from < height
            /\ height <= latest_height)
    /\ []((seq_pc = "recv" /\ batch_failed_at = 0 /\ latest_height # 0) =>
            last_processed_height = latest_height)
    /\ [][(height_chan # << >> /\ height_chan' = Tail(height_chan)
            /\ batch_failed_at = 0 /\ latest_height # 0) =>
            (seq_pc = "recv" /\ last_processed_height = latest_height)]_vars

\* C10 witness: a batch of at least two heights has ended without a failure.
C10_Witness ==
    /\ seq_pc = "recv"
    /\ batch_failed_at = 0
    /\ latest_height >= batch_from + 2
    /\ last_processed_height = latest_height

\* C11: receiving a signal H <= last_processed_height is a no-op: the
\* sequencer stays in recv(), nothing is fetched, nothing is sent, and
\* last_processed_height is unchanged.
C11_StaleSignalNoOp ==
    [][(/\ seq_pc = "recv"
        /\ height_chan # << >>
        /\ height_chan' = Tail(height_chan)
        /\ Head(height_chan) <= last_processed_height) =>
        (/\ seq_pc' = "recv"
         /\ UNCHANGED << last_processed_height, fetched, outcomes, sent,
                         event_chan, contract_events >>)]_vars

\* C11 witness: the signal received last was a stale one (it is not the
\* signal of the last batch) and the sequencer is waiting again.
C11_Witness ==
    /\ seq_pc = "recv"
    /\ last_signal # 0
    /\ last_signal # latest_height
    /\ last_signal <= last_processed_height

\* Heights whose block yields no matching event (and no parse error).
NoEventHeights == { h \in Heights : contract_events_of(chain[h]) = Ok(<< >>) }

\* C12: every batch accepted by the delivery channel has a non-empty events
\* sequence; a process_block call whose fetch succeeds on a block without
\* matching events sends nothing and last_processed_height advances to that
\* height.
C12_OnlyNonEmptyBatches ==
    /\ [](\A b \in sent : b.events # << >>)
    /\ [](\A i \in 1..Len(event_chan) : event_chan[i].events # << >>)
    /\ [](\A h \in NoEventHeights : \A b \in sent : b.height # h)
    /\ [][(ProcessBlock /\ rpc_failures' = rpc_failures /\ height \in NoEventHeights) =>
            (/\ last_processed_height' = height
             /\ "ok" \in outcomes'[height]
             /\ seq_pc' # "send"
             /\ UNCHANGED << sent, event_chan >>)]_vars

\* C12 witness: a height without matching events was processed
\* successfully, after a batch had been sent for another height.
C12_Witness ==
    /\ last_processed_height \in NoEventHeights
    /\ last_processed_height \in Succeeded
    /\ sent # {}

\* The events of one execution log that parse to a contract event, in the
\* order of the log.
RECURSIVE MatchingEvents(_)
MatchingEvents(events) ==
    IF events = << >> THEN << >>
    ELSE LET r == parse_contract_event(Head(events), contract_address)
         IN  (IF r.tag = "Ok" /\ r.v # None THEN << r.v.v >> ELSE << >>)
             \o MatchingEvents(Tail(events))

\* The matching events of transactions i..n of a block, transaction by
\* transaction, each with the hash of the raw bytes of its transaction.
RECURSIVE ExpectedFrom(_, _)
ExpectedFrom(block, i) ==
    IF i > Len(block.txs) THEN << >>
    ELSE LET own == MatchingEvents(block.txs_results.v[i])
         IN  [k \in 1..Len(own) |-> << calculate_tx_hash(block.txs[i]), own[k] >>]
             \o ExpectedFrom(block, i + 1)

\* C13: the events of every batch the delivery channel accepted are the
\* concatenation, over the block's transactions in block order, of each
\* transaction's matching events in the order of its execution log, each
\* with the hash of its own transaction.
C13_BatchIsConcatenationInOrder ==
    \A b \in sent : b.events = ExpectedFrom(chain[b.height], 1)

\* C13 witness: a batch of three events from two transactions was accepted,
\* the same event under two different transaction hashes.
C13_Witness ==
    \E b \in sent :
        /\ Len(b.events) = 3
        /\ b.events[1][1] # b.events[3][1]
        /\ b.events[1][2] = b.events[3][2]

\* attrs.get(key) of the event given to the lone parse_contract_event call.
RawAttr(key) == AttrGet(raw_event.attributes, key)

\* The call has returned.
Parsed == parse_result # Pending /\ parse_result # None

\* The event's action, amount, msg_index and the fields of its action are
\* all well-formed.
RawFieldsWellFormed ==
    /\ RawAttr("amount") # None /\ RawAttr("msg_index") # None
    /\ ParseU128(RawAttr("amount").v).tag = "Ok"
    /\ ParseU32(RawAttr("msg_index").v).tag = "Ok"
    /\ \/ RawAttr("action") = Some("peg_in") /\ RawAttr("receiver") # None
       \/ /\ RawAttr("action") = Some("peg_out")
          /\ RawAttr("sender") # None
          /\ RawAttr("btc_address") # None
          /\ RawAttr("operator_btc_pk") # None

RawWellFormed == raw_event.kind = "wasm" /\ RawFieldsWellFormed

\* C14: a contract event is produced (and pushed to the batch) only from a
\* raw event whose _contract_address is the configured address; for an
\* event whose _contract_address is absent or different
\* parse_contract_event returns Ok(None), well-formed or not.
C14_OnlyTargetContract ==
    Parsed =>
        /\ (contract_events # << >> \/ (parse_result.tag = "Ok" /\ parse_result.v # None))
              => RawAttr("_contract_address") = Some(contract_address)
        /\ RawAttr("_contract_address") # Some(contract_address)
              => (parse_result = Ok(None) /\ contract_events = << >>)

\* C14 witness: a well-formed wasm peg event without _contract_address was
\* parsed to Ok(None).
C14_Witness ==
    /\ Parsed
    /\ RawWellFormed
    /\ RawAttr("_contract_address") = None
    /\ parse_result = Ok(None)

\* C15: parse_contract_event returns Ok(None) whenever the kind is not
\* "wasm" or the action is neither peg_in nor peg_out, whatever the other
\* attributes; an event is produced only when the kind is wasm, the contract
\* address matches and the action is peg_in or peg_out.
C15_OnlyWasmPegActions ==
    Parsed =>
        /\ (raw_event.kind # "wasm"
              \/ RawAttr("action") \notin { Some("peg_in"), Some("peg_out") })
              => (parse_result = Ok(None) /\ contract_events = << >>)
        /\ (parse_result.tag = "Ok" /\ parse_result.v # None)
              => /\ raw_event.kind = "wasm"
                 /\ RawAttr("_contract_address") = Some(contract_address)
                 /\ RawAttr("action") \in { Some("peg_in"), Some("peg_out") }
                 /\ parse_result.v.v.type =
                        (IF RawAttr("action") = Some("peg_in") THEN "PegIn" ELSE "PegOut")

\* C15 witness: a non-wasm event carrying the target address and
\* well-formed peg fields was parsed to Ok(None).
C15_Witness ==
    /\ Parsed
    /\ raw_event.kind # "wasm"
    /\ RawAttr("_contract_address") = Some(contract_address)
    /\ RawFieldsWellFormed
    /\ parse_result = Ok(None)

\* The decimal strings of the model that denote a number, with the number
\* each denotes (Rust's integer FromStr: an optional "+", then one or more
\* decimal digits; leading zeros allowed).
Denotes ==
    [ s \in { "1", "100", "007", "+5", "4294967295", "4294967296",
              "340282366920938463463374607431768211455",
              "340282366920938463463374607431768211456" } |->
        CASE s = "007" -> << "7" >>
          [] s = "+5" -> << "5" >>
          [] OTHER -> Chars(s) ]

\* Those that fit an unsigned 32-bit and an unsigned 128-bit integer.
FitsU32 == { "1", "100", "007", "+5", "4294967295" }
FitsU128 ==
    FitsU32 \cup { "4294967296", "340282366920938463463374607431768211455" }

\* A required attribute is missing or its number does not fit.
RawFieldsBad ==
    \/ RawAttr("amount") = None
    \/ RawAttr("amount").v \notin FitsU128
    \/ RawAttr("msg_index") = None
    \/ RawAttr("msg_index").v \notin FitsU32
    \/ RawAttr("action") = Some("peg_in") /\ RawAttr("receiver") = None
    \/ /\ RawAttr("action") = Some("peg_out")
       /\ \/ RawAttr("sender") = None
          \/ RawAttr("btc_address") = None
          \/ RawAttr("operator_btc_pk") = None

\* The variant of the event's action with the event's attribute values.
RawExpectedEvent ==
    IF RawAttr("action") = Some("peg_in")
    THEN [type |-> "PegIn", msg_index |-> Denotes[RawAttr("msg_index").v],
          receiver |-> RawAttr("receiver").v,
          amount |-> Denotes[RawAttr("amount").v]]
    ELSE [type |-> "PegOut", msg_index |-> Denotes[RawAttr("msg_index").v],
          sender |-> RawAttr("sender").v,
          btc_address |-> RawAttr("btc_address").v,
          operator_btc_pk |-> RawAttr("operator_btc_pk").v,
          amount |-> Denotes[RawAttr("amount").v]]

\* C16: for a wasm event of the target contract with action peg_in or
\* peg_out, parse_contract_event returns an error when amount is missing or
\* not a u128, msg_index is missing or not a u32, a peg_in lacks receiver or
\* a peg_out lacks sender, btc_address or operator_btc_pk; otherwise it
\* returns the variant of the action with exactly those attribute values.
C16_FieldErrorsOrVariant ==
    (/\ Parsed
     /\ raw_event.kind = "wasm"
     /\ RawAttr("_contract_address") = Some(contract_address)
     /\ RawAttr("action") \in { Some("peg_in"), Some("peg_out") }) =>
        IF RawFieldsBad
        THEN parse_result.tag = "Err" /\ contract_events = << >>
        ELSE parse_result = Ok(Some(RawExpectedEvent))

\* C16 witness: a peg_out of the target contract with every field present
\* and an amount of u128::MAX was refused for a msg_index of 2^32.
C16_Witness ==
    /\ Parsed
    /\ raw_event.kind = "wasm"
    /\ RawAttr("_contract_address") = Some(contract_address)
    /\ RawAttr("action") = Some("peg_out")
    /\ RawAttr("sender") # None /\ RawAttr("btc_address") # None
    /\ RawAttr("operator_btc_pk") # None
    /\ RawAttr("amount") = Some("340282366920938463463374607431768211455")
    /\ RawAttr("msg_index") = Some("4294967296")
    /\ parse_result.tag = "Err"

\* C17: the delivery channel never holds more than its capacity; while it
\* is full and the consumer alive the sequencer stays in the send of the
\* current height (no fetch, last_processed_height unchanged); the sequencer
\* leaves that send with a live consumer only by queuing the batch, and the
\* queue loses batches only to the consumer.
C17_BackpressureBlocksSequencer ==
    /\ [](Len(event_chan) <= EventChanCap)
    /\ [][(seq_pc = "send" /\ consumer_alive /\ Len(event_chan) >= EventChanCap) =>
            (/\ seq_pc' = "send"
             /\ UNCHANGED << fetched, last_processed_height, height,
                             contract_events, sent, outcomes >>)]_vars
    /\ [][(seq_pc = "send" /\ seq_pc' # "send" /\ consumer_alive) =>
            (/\ event_chan' = Append(event_chan, BlockEvents(height, contract_events))
             /\ last_processed_height' = height)]_vars
    /\ [][event_chan' # event_chan =>
            \/ Len(event_chan') = Len(event_chan) + 1
            \/ consumer_alive /\ event_chan # << >> /\ event_chan' = Tail(event_chan)
            \/ consumer_alive /\ ~consumer_alive' /\ event_chan' = << >>]_vars

\* C17 witness: the sequencer holds a batch in send() while the channel is
\* full and the consumer alive.
C17_Witness ==
    /\ seq_pc = "send"
    /\ consumer_alive
    /\ Len(event_chan) = EventChanCap
    /\ contract_events # << >>

\* Heights whose block has a number of raw transactions different from the
\* number of execution results.
MismatchHeights ==
    { h \in Heights : /\ chain[h].txs_results # None
                      /\ Len(chain[h].txs) # Len(chain[h].txs_results.v) }

\* C18: for a block whose transactions and execution results differ in
\* number get_block_events returns an empty list and no error: the height
\* yields no event and no parse or send error, nothing is delivered for it,
\* and a process_block call whose queries succeed advances
\* last_processed_height to it.
C18_LengthMismatchYieldsNothing ==
    /\ [](\A h \in MismatchHeights :
            /\ get_block_events(chain[h]) = << >>
            /\ outcomes[h] \subseteq { "ok", "fetch_err" }
            /\ \A b \in sent : b.height # h)
    /\ [][(ProcessBlock /\ rpc_failures' = rpc_failures /\ height \in MismatchHeights) =>
            (/\ last_processed_height' = height
             /\ "ok" \in outcomes'[height]
             /\ UNCHANGED << sent, event_chan, contract_events >>)]_vars

\* C18 witness: last_processed_height stands at a height whose lists
\* differ in length although their first elements hold a matching event.
C18_Witness ==
    /\ last_processed_height \in MismatchHeights
    /\ last_processed_height \in Succeeded
    /\ MatchingEvents(chain[last_processed_height].txs_results.v[1]) # << >>

\* C19: at most one height is in the per-height pipeline: a height that
\* was fetched and whose process_block call has not returned is the one the
\* sequencer holds in send(); a fetch begins only when every earlier call
\* has returned; and a step of the transport task (a stream item taken,
\* a height published) changes neither last_processed_height nor any other
\* state of the sequencer.
C19_OneHeightInPipeline ==
    /\ [](\A h \in fetched : outcomes[h] = {} => (seq_pc = "send" /\ height = h))
    /\ [](contract_events # << >> => seq_pc = "send")
    /\ [][ProcessBlock =>
            (contract_events = << >> /\ \A h \in fetched : outcomes[h] # {})]_vars
    /\ [][notifs' # notifs =>
            UNCHANGED << last_processed_height, seq_pc, height, latest_height,
                         fetched, outcomes, contract_events, sent, event_chan >>]_vars

\* C19 witness: the transport task has published a further signal while
\* the sequencer holds a height in send().
C19_Witness ==
    /\ seq_pc = "send"
    /\ tr_pc = "streaming"
    /\ height_chan # << >>
    /\ outcomes[height] = {}

\* C20: last_processed_height starts as the caller's starting height and
\* never falls below it; it changes only in a step of the sequencer's loop,
\* only to the height whose process_block call returned Ok in that step; no
\* height at or below the starting height is fetched or delivered.
C20_AdvancesOnlyOnSuccess ==
    /\ last_processed_height = starting_height
    /\ [](last_processed_height >= starting_height)
    /\ [](\A h \in fetched : h > starting_height)
    /\ [](\A b \in sent : b.height > starting_height)
    /\ [][last_processed_height' # last_processed_height =>
            (/\ seq_pc \in { "loop", "send" }
             /\ last_processed_height' = height
             /\ height > last_processed_height
             /\ "ok" \notin outcomes[height]
             /\ "ok" \in outcomes'[height]
             /\ notifs' = notifs
             /\ consumer_alive' = consumer_alive)]_vars

\* C20 witness: a listener started at a positive height has delivered a
\* batch and advanced.
C20_Witness ==
    /\ starting_height > 0
    /\ last_processed_height > starting_height
    /\ \E b \in sent : b.height = last_processed_height

\* C21: a process_block call that fails in the block or block_results
\* query sends nothing and leaves last_processed_height unchanged, and the
\* sequencer goes on: it is in its for loop or back in recv(), start() has
\* not returned.
C21_FetchFailureKeepsListener ==
    [][(ProcessBlock /\ rpc_failures' # rpc_failures) =>
        (/\ "fetch_err" \in outcomes'[height]
         /\ "ok" \notin outcomes'[height]
         /\ seq_pc' \in { "loop", "recv" }
         /\ start_result' = "none"
         /\ UNCHANGED << last_processed_height, sent, event_chan,
                         contract_events >>)]_vars

\* C21 witness: after a failed query for some height the sequencer took a
\* later signal and delivered a batch for a height above it.
C21_Witness ==
    \E h \in Heights :
        /\ "fetch_err" \in outcomes[h]
        /\ batch_failed_at = 0
        /\ \E b \in sent : b.height > h /\ b.height > batch_from

\* Every height in (starting_height, H] had a successful process_block call
\* and last_processed_height has reached H.
ProcessedUpTo(H) ==
    /\ last_processed_height >= H
    /\ \A h \in (starting_height + 1)..H : h \in Succeeded

\* The run has left the conditions the liveness claim assumes, or still
\* depends on them: the consumer is gone or not draining a full channel, or
\* the sequencer waits in recv() below H with nothing skipped (a later
\* signal finishes the work).
AwaitsEnvironment(H) ==
    \/ ~consumer_alive
    \/ seq_pc = "send" /\ ~HasCapacity(event_chan)
    \/ /\ seq_pc = "recv"
       /\ last_processed_height < H
       /\ \A h \in (starting_height + 1)..last_processed_height : h \in Succeeded

\* C22: once the sequencer has taken the signal for a published height H,
\* it eventually reaches last_processed_height >= H with every height in
\* (starting_height, H] successfully processed, as long as the consumer
\* drains the channel and later signals arrive to retry a failed height.
C22_EventuallyProcessedUpToSignal ==
    \A H \in Heights :
        (last_signal = H /\ seq_pc = "loop") ~> (ProcessedUpTo(H) \/ AwaitsEnvironment(H))

\* The attributes without those a later attribute of the same key shadows.
RECURSIVE DropShadowed(_)
DropShadowed(attributes) ==
    IF attributes = << >> THEN << >>
    ELSE (IF \E j \in 2..Len(attributes) : attributes[j][1] = Head(attributes)[1]
          THEN << >> ELSE << Head(attributes) >>)
         \o DropShadowed(Tail(attributes))

\* Some key occurs more than once in the event of the lone call.
RawHasRepeatedKey ==
    \E i, j \in 1..Len(raw_event.attributes) :
        i < j /\ raw_event.attributes[i][1] = raw_event.attributes[j][1]

\* C23: when a key occurs more than once in a raw event, every lookup of
\* parse_contract_event sees the value of its last occurrence: the result
\* is the result for the event that holds only the last occurrence of each
\* key.
C23_LastOccurrenceWins ==
    (Parsed /\ RawHasRepeatedKey) =>
        /\ \A i \in 1..Len(KeyOrder) :
              LET idx == { n \in 1..Len(raw_event.attributes) :
                             raw_event.attributes[n][1] = KeyOrder[i] }
              IN  idx # {} =>
                    RawAttr(KeyOrder[i]) = Some(raw_event.attributes[MaxOf(idx)][2])
        /\ parse_result =
              parse_contract_event(
                  RawEvent(raw_event.kind, DropShadowed(raw_event.attributes)),
                  contract_address)

\* C23 witness: an event whose first _contract_address is another
\* contract's and whose last is the target's was parsed to an event.
C23_Witness ==
    /\ Parsed
    /\ RawHasRepeatedKey
    /\ raw_event.attributes[1] = Attr("_contract_address", "other")
    /\ parse_result.tag = "Ok"
    /\ parse_result.v # None

\* The lone validate_bech32_address call has returned.
Validated == validation # None /\ validation.result # Pending

\* The well-formed addresses with the prefix each carries.
PrefixOfAddress ==
    [ a \in { valid_addresses[i][1] : i \in 1..Len(valid_addresses) } |->
        valid_addresses[CHOOSE i \in 1..Len(valid_addresses) : valid_addresses[i][1] = a][2] ]

\* C24: validate_bech32_address returns an error for every address that is
\* not a well-formed bech32 account id; for a well-formed address it
\* returns Ok when expected_prefix is None or the address's prefix, and an
\* error when expected_prefix is another prefix.
C24_ValidateBech32Address ==
    Validated =>
        IF validation.address \notin DOMAIN PrefixOfAddress
        THEN validation.result.tag = "Err"
        ELSE IF validation.expected_prefix = None
                \/ validation.expected_prefix = Some(PrefixOfAddress[validation.address])
        THEN validation.result.tag = "Ok"
        ELSE validation.result.tag = "Err"

\* C24 witness: a well-formed bbn address was refused for the expected
\* prefix "bb".
C24_Witness ==
    /\ Validated
    /\ validation.address \in DOMAIN PrefixOfAddress
    /\ PrefixOfAddress[validation.address] = "bbn"
    /\ validation.expected_prefix = Some("bb")
    /\ validation.result.tag = "Err"

\* Heights whose block holds an event that fails to parse.
BadEventHeights ==
    { h \in Heights :
        /\ chain[h].txs_results # None
        /\ \E i \in 1..Len(chain[h].txs_results.v) :
              \E k \in 1..Len(chain[h].txs_results.v[i]) :
                 parse_contract_event(chain[h].txs_results.v[i][k],
                                      contract_address).tag = "Err" }

\* C25: delivery of a block is all-or-nothing and at most once: the channel
\* never accepts a second batch for a height (also not for a height retried
\* after a failure), every accepted batch holds all matching events of its
\* block, no batch exists for a block with an event that fails to parse,
\* and the consumer is handed only accepted batches.
C25_AllOrNothingAtMostOnce ==
    /\ [](\A b \in sent :
            /\ b.height \notin BadEventHeights
            /\ b.events = ExpectedFrom(chain[b.height], 1)
            /\ "ok" \in outcomes[b.height])
    /\ [](\A i \in 1..Len(event_chan) : event_chan[i] \in sent)
    /\ [](\A i, j \in 1..Len(event_chan) :
            i # j => event_chan[i].height # event_chan[j].height)
    /\ [][Len(event_chan') = Len(event_chan) + 1 =>
            /\ \A b \in sent : b.height # event_chan'[Len(event_chan')].height
            /\ "ok" \notin outcomes[event_chan'[Len(event_chan')].height]]_vars

\* C25 witness: a height whose first process_block call failed was retried
\* and delivered, and a block with an unparsable event was passed over.
C25_Witness ==
    /\ \E h \in Heights :
          /\ "fetch_err" \in outcomes[h]
          /\ \E b \in sent : b.height = h
    /\ \E h \in BadEventHeights : "parse_err" \in outcomes[h]

\* The event of the lone call is filtered out: not wasm, not of the target
\* contract, or with an action other than peg_in and peg_out.
RawFilteredOut ==
    \/ raw_event.kind # "wasm"
    \/ RawAttr("_contract_address") # Some(contract_address)
    \/ RawAttr("action") \notin { Some("peg_in"), Some("peg_out") }

\* C26: filtering precedes field validation: for an event that is not
\* wasm, belongs to another contract or has another action
\* parse_contract_event never returns an error, whatever its amount,
\* msg_index and other fields are, so such an event cannot make
\* process_block leave through `?`.
C26_FilteredEventsNeverFail ==
    (Parsed /\ RawFilteredOut) => parse_result.tag = "Ok"

\* C26 witness: a wasm peg_in of another contract with a malformed amount
\* and no msg_index was parsed without an error.
C26_Witness ==
    /\ Parsed
    /\ raw_event.kind = "wasm"
    /\ RawAttr("_contract_address") = Some("other")
    /\ RawAttr("action") = Some("peg_in")
    /\ RawAttr("amount") = Some("1.5")
    /\ RawAttr("msg_index") = None
    /\ parse_result.tag = "Ok"

\* C27: last_processed_height never decreases, whatever signals arrive
\* (smaller than an earlier one, or repeated).
C27_LastProcessedMonotonic ==
    [][last_processed_height' >= last_processed_height]_vars

\* C27 witness: after a batch for a signal the sequencer has taken a
\* smaller signal, below the height it had already processed.
C27_Witness ==
    /\ last_signal # 0
    /\ last_signal < latest_height
    /\ last_signal < last_processed_height
    /\ seq_pc = "recv"

\* The stream item is a (legacy) new-block notification carrying a block
\* of positive height.
IsNewBlockWithHeight(event) ==
    /\ event.item = "Ok"
    /\ event.data \in { "NewBlock", "LegacyNewBlock" }
    /\ event.block # None
    /\ event.block.v > 0

\* C28: every value on the height-signal channel, and every value the
\* sequencer takes from it, is a positive height; of the stream's Ok items
\* exactly the new-block notifications that carry a block of positive
\* height are published, with that block's height.
C28_OnlyPositiveHeightsPublished ==
    /\ \A i \in 1..Len(height_chan) : height_chan[i] > 0
    /\ seq_pc \in { "loop", "send" } => (last_signal > 0 /\ latest_height > 0)
    /\ \A event \in StreamItems :
          event.item = "Ok" =>
            /\ ShouldPublish(NotificationHeight(event)) <=> IsNewBlockWithHeight(event)
            /\ IsNewBlockWithHeight(event) => NotificationHeight(event) = event.block.v

\* C28 witness: the stream has yielded two items, one of which was
\* published and one ignored.
C28_Witness ==
    /\ notifs = 2
    /\ Len(height_chan) = 1
    /\ last_signal = 0
    /\ ~overflowed

=============================================================================
